---- MODULE Spec2Model ----
(***************************************************************************)
(* Model of src/server.js: an Express process serving CRUD endpoints for   *)
(* employees, departments and attendance over a PostgreSQL pool.           *)
(*                                                                         *)
(* Every handler is an async function; each `await pool.query(...)` is one *)
(* autocommit statement that the store executes atomically, and the        *)
(* statements of different requests interleave freely.  Handlers with one  *)
(* statement are one action.  The two handlers with several statements     *)
(* (POST /api/attendance, DELETE /api/employees/:id) are one action per    *)
(* statement, with the request's local variables kept in `ups` / `dels`.   *)
(* A handler's response is the value of its operator (Handled: status code,*)
(* JSON body, statements issued, tables afterwards); the actions apply it. *)
(*                                                                         *)
(* JavaScript values: a string, or Undefined (property missing from the    *)
(* JSON body), or JNull (JSON null).  Store values: a string, or NULL.     *)
(***************************************************************************)
EXTENDS Integers, FiniteSets, Sequences, TLC

\* ------------------------------------------------------------------ bounds
\* Date.now() ranges over 0..MaxClock.
MaxClock == 1
\* Number of POST /api/attendance requests in a behaviour.
MaxUpserts == 2
\* Number of DELETE /api/employees/:id requests in a behaviour.
MaxDeletes == 1

\* ------------------------------------------------------------ value encoding
Undefined == "<undefined>"
JNull == "<null>"
NULL == "<NULL>"

\* Template-literal interpolation `${v}`.
ToStr(v) == IF v = Undefined THEN "undefined" ELSE IF v = JNull THEN "null" ELSE v

\* node-postgres parameter conversion: null and undefined are both sent as NULL.
PgParam(v) == IF v \in {Undefined, JNull} THEN NULL ELSE v

\* The JavaScript expression `v || ''` on a string, undefined or null.
OrEmpty(v) == IF v \in {Undefined, JNull, ""} THEN "" ELSE v

\* SQL `a = b` in a WHERE clause: never true when either side is NULL.
SqlEq(a, b) == a # NULL /\ b # NULL /\ a = b

EmpId(t) == "emp-" \o ToString(t)
DeptId(t) == "dept-" \o ToString(t)
AttendanceId(employeeId, date) == ToStr(employeeId) \o "-" \o ToStr(date)

\* ------------------------------------------------------------------- inputs
Clock == 0 .. MaxClock
EmployeeIds == {EmpId(t) : t \in Clock}
DepartmentIds == {DeptId(t) : t \in Clock}
Dates == {"d1", "d2"}
Statuses == {"present", "absent"}

\* A JSON body with none of the employee fields.
NoEmployeeFields ==
  [name |-> Undefined, email |-> Undefined, phone |-> Undefined, address |-> Undefined,
   department |-> Undefined, outlet |-> Undefined]

\* Request bodies of POST /api/employees.
EmployeeBodies ==
  { [NoEmployeeFields EXCEPT !.name = "Ann"],
    [NoEmployeeFields EXCEPT !.name = "Ann", !.outlet = "North"],
    NoEmployeeFields }

\* Request bodies of PATCH /api/employees/:id: no field, and each field alone.
PatchBodies ==
  { NoEmployeeFields,
    [NoEmployeeFields EXCEPT !.name = "Ann"],
    [NoEmployeeFields EXCEPT !.name = JNull],
    [NoEmployeeFields EXCEPT !.email = ""],
    [NoEmployeeFields EXCEPT !.phone = JNull],
    [NoEmployeeFields EXCEPT !.address = ""],
    [NoEmployeeFields EXCEPT !.department = ""],
    [NoEmployeeFields EXCEPT !.outlet = "North"],
    [NoEmployeeFields EXCEPT !.outlet = JNull] }

\* Request bodies of POST /api/departments.
DepartmentBodies ==
  { [name |-> "Sales", description |-> Undefined, outlet |-> Undefined],
    [name |-> Undefined, description |-> Undefined, outlet |-> Undefined] }

\* employeeId of a POST /api/attendance body; URL parameters are always strings.
UpsertEmployeeIds == EmployeeIds \cup {Undefined, JNull}

\* date and status of the u-th POST /api/attendance body. Dates and statuses are
\* only ever compared and concatenated, so a behaviour with the two dates or the
\* two statuses exchanged is a behaviour too: the first request takes the first
\* of each, the later ones any.
UpsertDates(u) == IF u = 1 THEN {"d1"} ELSE Dates
UpsertStatuses(u) == IF u = 1 THEN {"present"} ELSE Statuses

Upserts == 1 .. MaxUpserts
Deletes == 1 .. MaxDeletes

VARIABLES
  pool,         \* whether DATABASE_URL was set and the pool created
  now,          \* Date.now()
  employees,    \* table employees: set of rows
  departments,  \* table departments: set of rows
  attendance,   \* table attendance: set of rows
  ups,          \* POST /api/attendance requests: locals and response
  dels          \* DELETE /api/employees/:id requests: locals and response

vars == <<pool, now, employees, departments, attendance, ups, dels>>

\* ------------------------------------------------------------------- store
\* One statement's outcome: the rows it returns (RETURNING * / SELECT), the
\* error it raises ("" when none) and the tables after it.
Outcome(rows, error, emps, depts, att) ==
  [rows |-> rows, error |-> error, employees |-> emps, departments |-> depts,
   attendance |-> att]

\* A statement that returns `rows` or raises `error` and changes nothing.
UnchangedOutcome(rows, error, db) ==
  Outcome(rows, error, db.employees, db.departments, db.attendance)

\* Mutant: the attendance table created without its REFERENCES clause.
ForeignKeyNotEnforced(emps, employee_id) == TRUE

\* attendance.employee_id REFERENCES employees(id): NULL, or the id of a row.
ForeignKeyOk(emps, employee_id) ==
  employee_id = NULL \/ \E e \in emps : e.id = employee_id

\* PRIMARY KEY on id.
PrimaryKeyOk(table, id) == \A r \in table : r.id # id

\* ON DELETE CASCADE of attendance.employee_id: the rows that go with `gone`.
Cascade(att, gone) == {a \in att : \E e \in gone : SqlEq(a.employee_id, e.id)}

\* SELECT * FROM employees
SelectEmployees(db) == UnchangedOutcome(db.employees, "", db)

\* INSERT INTO employees (...) VALUES (...) RETURNING *
InsertEmployee(db, row) ==
  IF row.name = NULL
    THEN UnchangedOutcome({}, "null value in column name", db)
  ELSE IF ~PrimaryKeyOk(db.employees, row.id)
    THEN UnchangedOutcome({}, "duplicate key", db)
  ELSE Outcome({row}, "", db.employees \cup {row}, db.departments, db.attendance)

\* A row with the SET list `sets` (a sequence of <<column, value>>) applied in order.
RECURSIVE ApplySets(_, _)
ApplySets(row, sets) ==
  IF sets = <<>> THEN row
  ELSE ApplySets([row EXCEPT ![sets[1][1]] = sets[1][2]], Tail(sets))

\* Mutant: the UPDATE issued without its WHERE clause.
UpdateEmployeeWithoutWhere(db, sets, id) ==
  LET hit == db.employees
      new == {ApplySets(e, sets) : e \in hit}
  IN  IF sets = <<>>
        THEN UnchangedOutcome({}, "syntax error", db)
      ELSE IF \E e \in new : e.name = NULL
        THEN UnchangedOutcome({}, "null value in column name", db)
      ELSE Outcome(new, "", (db.employees \ hit) \cup new, db.departments, db.attendance)

\* UPDATE employees SET <sets> WHERE id = $n RETURNING *
UpdateEmployee(db, sets, id) ==
  LET hit == {e \in db.employees : SqlEq(e.id, id)}
      new == {ApplySets(e, sets) : e \in hit}
  IN  IF sets = <<>>
        THEN UnchangedOutcome({}, "syntax error", db)
      ELSE IF \E e \in new : e.name = NULL
        THEN UnchangedOutcome({}, "null value in column name", db)
      ELSE Outcome(new, "", (db.employees \ hit) \cup new, db.departments, db.attendance)

\* DELETE FROM employees WHERE id = $1 RETURNING *
DeleteEmployee(db, id) ==
  LET hit == {e \in db.employees : SqlEq(e.id, id)}
  IN  Outcome(hit, "", db.employees \ hit, db.departments, db.attendance \ Cascade(db.attendance, hit))

\* SELECT * FROM departments
SelectDepartments(db) == UnchangedOutcome(db.departments, "", db)

\* INSERT INTO departments (...) VALUES (...) RETURNING *
InsertDepartment(db, row) ==
  IF row.name = NULL
    THEN UnchangedOutcome({}, "null value in column name", db)
  ELSE IF ~PrimaryKeyOk(db.departments, row.id)
    THEN UnchangedOutcome({}, "duplicate key", db)
  ELSE Outcome({row}, "", db.employees, db.departments \cup {row}, db.attendance)

\* DELETE FROM departments WHERE id = $1 RETURNING *
DeleteDepartment(db, id) ==
  LET hit == {d \in db.departments : SqlEq(d.id, id)}
  IN  Outcome(hit, "", db.employees, db.departments \ hit, db.attendance)

\* SELECT * FROM attendance
SelectAttendance(db) == UnchangedOutcome(db.attendance, "", db)

\* SELECT outlet FROM employees WHERE id = $1
SelectOutlet(db, id) ==
  UnchangedOutcome({[outlet |-> e.outlet] : e \in {x \in db.employees : SqlEq(x.id, id)}}, "", db)

\* SELECT * FROM attendance WHERE employee_id = $1 AND date = $2
SelectExisting(db, employee_id, date) ==
  UnchangedOutcome({a \in db.attendance : SqlEq(a.employee_id, employee_id) /\ SqlEq(a.date, date)}, "", db)

\* UPDATE attendance SET status = $1 WHERE employee_id = $2 AND date = $3 RETURNING *
UpdateStatus(db, status, employee_id, date) ==
  LET hit == {a \in db.attendance : SqlEq(a.employee_id, employee_id) /\ SqlEq(a.date, date)}
      new == {[a EXCEPT !.status = status] : a \in hit}
  IN  IF hit # {} /\ status = NULL
        THEN UnchangedOutcome({}, "null value in column status", db)
      ELSE Outcome(new, "", db.employees, db.departments, (db.attendance \ hit) \cup new)

\* INSERT INTO attendance (id, employee_id, date, status, outlet) VALUES (...) RETURNING *
InsertAttendance(db, row) ==
  IF row.date = NULL \/ row.status = NULL
    THEN UnchangedOutcome({}, "null value in column", db)
  ELSE IF ~PrimaryKeyOk(db.attendance, row.id)
    THEN UnchangedOutcome({}, "duplicate key", db)
  ELSE IF ~ForeignKeyOk(db.employees, row.employee_id)
    THEN UnchangedOutcome({}, "foreign key violation", db)
  ELSE Outcome({row}, "", db.employees, db.departments, db.attendance \cup {row})

\* DELETE FROM attendance WHERE employee_id = $1
DeleteAttendanceOf(db, employee_id) ==
  LET hit == {a \in db.attendance : SqlEq(a.employee_id, employee_id)}
  IN  Outcome(hit, "", db.employees, db.departments, db.attendance \ hit)

\* DELETE FROM attendance WHERE employee_id = $1 AND date = $2 RETURNING *
DeleteAttendance(db, employee_id, date) ==
  LET hit == {a \in db.attendance : SqlEq(a.employee_id, employee_id) /\ SqlEq(a.date, date)}
  IN  Outcome(hit, "", db.employees, db.departments, db.attendance \ hit)

\* ---------------------------------------------------------------- requests
\* The store as the statements of this state see it.
Db == [employees |-> employees, departments |-> departments, attendance |-> attendance]

\* The tables after statement outcome o.
Commit(o) ==
  /\ employees' = o.employees
  /\ departments' = o.departments
  /\ attendance' = o.attendance

\* What a handler did: the status code and JSON body it responds with, the
\* number of statements it issued, and the store after them.
Handled(code, body, stmts, o) ==
  [code |-> code, body |-> body, stmts |-> stmts, employees |-> o.employees,
   departments |-> o.departments, attendance |-> o.attendance]

\* if (!pool) return res.status(503).json({ error: 'Database not available' })
Unavailable(db) == Handled(503, [error |-> "Database not available"], 0, db)

\* The locals of a POST /api/attendance request, which exist while it runs, and
\* the status code it responded with.
IdleUpsert ==
  [pc |-> "idle", employeeId |-> Undefined, date |-> Undefined, status |-> Undefined,
   employeeResult |-> {}, existingRecord |-> 0, code |-> 0]

DoneUpsert(code) == [IdleUpsert EXCEPT !.pc = "done", !.code = code]

IdleDelete == [pc |-> "idle", id |-> "", code |-> 0]

Init ==
  /\ pool \in BOOLEAN
  /\ now = 0
  /\ employees = {}
  /\ departments = {}
  /\ attendance = {}
  /\ ups = [u \in Upserts |-> IdleUpsert]
  /\ dels = [k \in Deletes |-> IdleDelete]

\* Date.now() advances.
Tick ==
  /\ now < MaxClock
  /\ now' = now + 1
  /\ UNCHANGED <<pool, employees, departments, attendance, ups, dels>>

\* ------------------------------------------------------- GET (read-only)
\* app.get('/api/employees')
GetEmployees(db) ==
  IF ~pool THEN Unavailable(db)
  ELSE LET o == SelectEmployees(db) IN Handled(200, o.rows, 1, o)

\* app.get('/api/departments')
GetDepartments(db) ==
  IF ~pool THEN Unavailable(db)
  ELSE LET o == SelectDepartments(db) IN Handled(200, o.rows, 1, o)

\* The JSON shape of an attendance row: employee_id is renamed employeeId.
AttendanceJson(row) ==
  [id |-> row.id, employeeId |-> row.employee_id, date |-> row.date,
   status |-> row.status, outlet |-> row.outlet]

\* app.get('/api/attendance')
GetAttendance(db) ==
  IF ~pool THEN Unavailable(db)
  ELSE LET o == SelectAttendance(db)
       IN  Handled(200, {AttendanceJson(r) : r \in o.rows}, 1, o)

\* ------------------------------------------------------------- employees
\* The row POST /api/employees inserts.
NewEmployeeRow(id, body) ==
  [id |-> id, name |-> PgParam(body.name), email |-> PgParam(OrEmpty(body.email)),
   phone |-> PgParam(body.phone), address |-> PgParam(OrEmpty(body.address)),
   department |-> PgParam(OrEmpty(body.department)), outlet |-> PgParam(body.outlet)]

\* app.post('/api/employees') at time t
CreateEmployee(db, t, body) ==
  IF ~pool THEN Unavailable(db)
  ELSE LET o == InsertEmployee(db, NewEmployeeRow(EmpId(t), body))
       IN  IF o.error # "" THEN Handled(500, [error |-> o.error], 1, o)
           ELSE Handled(201, CHOOSE r \in o.rows : TRUE, 1, o)

PostEmployees(body) ==
  /\ Commit(CreateEmployee(Db, now, body))
  /\ UNCHANGED <<pool, now, ups, dels>>

\* The SET list PATCH /api/employees/:id builds from the fields the body has.
UpdateFields(body) ==
  (IF body.name # Undefined THEN << <<"name", PgParam(body.name)>> >> ELSE <<>>)
  \o (IF body.email # Undefined THEN << <<"email", PgParam(body.email)>> >> ELSE <<>>)
  \o (IF body.phone # Undefined THEN << <<"phone", PgParam(body.phone)>> >> ELSE <<>>)
  \o (IF body.address # Undefined THEN << <<"address", PgParam(body.address)>> >> ELSE <<>>)
  \o (IF body.department # Undefined
        THEN << <<"department", PgParam(body.department)>> >> ELSE <<>>)
  \o (IF body.outlet # Undefined THEN << <<"outlet", PgParam(body.outlet)>> >> ELSE <<>>)

\* Mutant: the emptiness test made on `values` after values.push(id).
NoFieldsAfterPushingId(updateFields) == Len(updateFields) + 1 = 0

\* if (updateFields.length === 0)
NoFieldsToUpdate(updateFields) == Len(updateFields) = 0

\* app.patch('/api/employees/:id')
UpdateEmployeeById(db, id, body) ==
  IF ~pool THEN Unavailable(db)
  ELSE IF NoFieldsToUpdate(UpdateFields(body))
    THEN Handled(400, [error |-> "No fields to update"], 0, db)
  ELSE LET o == UpdateEmployee(db, UpdateFields(body), id)
       IN  IF o.error # "" THEN Handled(500, [error |-> o.error], 1, o)
           ELSE IF Cardinality(o.rows) = 0
             THEN Handled(404, [error |-> "Employee not found"], 1, o)
           ELSE Handled(200, CHOOSE r \in o.rows : TRUE, 1, o)

PatchEmployee(id, body) ==
  /\ Commit(UpdateEmployeeById(Db, id, body))
  /\ UNCHANGED <<pool, now, ups, dels>>

\* app.delete('/api/employees/:id'): the response once the employee row is deleted
DeleteEmployeeResponse(o) ==
  IF Cardinality(o.rows) = 0
    THEN Handled(404, [error |-> "Employee not found"], 2, o)
    ELSE Handled(200, [success |-> TRUE], 2, o)

\* app.delete('/api/employees/:id'): the pool check and the first statement
DeleteEmployeeAttendance(k, id) ==
  /\ dels[k].pc = "idle"
  /\ \A j \in Deletes : j < k => dels[j].pc # "idle"
  /\ IF ~pool
       THEN /\ dels' = [dels EXCEPT ![k] = [pc |-> "done", id |-> id, code |-> 503]]
            /\ UNCHANGED <<employees, departments, attendance>>
       ELSE /\ Commit(DeleteAttendanceOf(Db, id))
            /\ dels' = [dels EXCEPT ![k] = [pc |-> "row", id |-> id, code |-> 0]]
  /\ UNCHANGED <<pool, now, ups>>

\* app.delete('/api/employees/:id'): the second statement and the response
DeleteEmployeeRow(k) ==
  /\ dels[k].pc = "row"
  /\ LET h == DeleteEmployeeResponse(DeleteEmployee(Db, dels[k].id))
     IN  /\ Commit(h)
         /\ dels' = [dels EXCEPT ![k] = [@ EXCEPT !.pc = "done", !.code = h.code]]
  /\ UNCHANGED <<pool, now, ups>>

\* ----------------------------------------------------------- departments
\* The row POST /api/departments inserts.
NewDepartmentRow(id, body) ==
  [id |-> id, name |-> PgParam(body.name),
   description |-> PgParam(OrEmpty(body.description)), outlet |-> PgParam(body.outlet)]

\* app.post('/api/departments') at time t
CreateDepartment(db, t, body) ==
  IF ~pool THEN Unavailable(db)
  ELSE LET o == InsertDepartment(db, NewDepartmentRow(DeptId(t), body))
       IN  IF o.error # "" THEN Handled(500, [error |-> o.error], 1, o)
           ELSE Handled(201, CHOOSE r \in o.rows : TRUE, 1, o)

PostDepartments(body) ==
  /\ Commit(CreateDepartment(Db, now, body))
  /\ UNCHANGED <<pool, now, ups, dels>>

\* app.delete('/api/departments/:id')
DeleteDepartmentById(db, id) ==
  IF ~pool THEN Unavailable(db)
  ELSE LET o == DeleteDepartment(db, id)
       IN  IF Cardinality(o.rows) = 0
             THEN Handled(404, [error |-> "Department not found"], 1, o)
             ELSE Handled(200, [success |-> TRUE], 1, o)

DeleteDepartments(id) ==
  /\ Commit(DeleteDepartmentById(Db, id))
  /\ UNCHANGED <<pool, now, ups, dels>>

\* ------------------------------------------------------------ attendance
\* const outlet = employeeResult.rows.length > 0 ? employeeResult.rows[0].outlet : null
ResolvedOutlet(employeeResult) ==
  IF Cardinality(employeeResult) > 0
    THEN (CHOOSE r \in employeeResult : TRUE).outlet
    ELSE PgParam(JNull)

\* The row POST /api/attendance inserts.
NewAttendanceRow(employeeId, date, status, outlet) ==
  [id |-> AttendanceId(employeeId, date), employee_id |-> PgParam(employeeId),
   date |-> PgParam(date), status |-> PgParam(status), outlet |-> outlet]

\* POST /api/attendance: the rows of the employee lookup
UpsertLookup(db, employeeId) == SelectOutlet(db, PgParam(employeeId)).rows

\* POST /api/attendance: existingRecord.rows.length of the existence check
UpsertExisting(db, employeeId, date) ==
  Cardinality(SelectExisting(db, PgParam(employeeId), PgParam(date)).rows)

\* Mutant: the UPDATE also rewrites outlet with the outlet just looked up.
UpsertStatementRefreshingOutlet(db, r) ==
  IF r.existingRecord > 0
    THEN LET o == UpdateStatus(db, PgParam(r.status), PgParam(r.employeeId),
                               PgParam(r.date))
             new == {[a EXCEPT !.outlet = ResolvedOutlet(r.employeeResult)] :
                       a \in o.rows}
         IN  Outcome(new, o.error, o.employees, o.departments,
                     (o.attendance \ o.rows) \cup new)
    ELSE InsertAttendance(db, NewAttendanceRow(r.employeeId, r.date, r.status,
                                               ResolvedOutlet(r.employeeResult)))

\* POST /api/attendance: UPDATE when the check found a row, else INSERT.
UpsertStatement(db, r) ==
  IF r.existingRecord > 0
    THEN UpdateStatus(db, PgParam(r.status), PgParam(r.employeeId), PgParam(r.date))
    ELSE InsertAttendance(db, NewAttendanceRow(r.employeeId, r.date, r.status,
                                               ResolvedOutlet(r.employeeResult)))

\* Mutant: the response always sent with res.status(201).
UpsertResponseAlwaysCreated(r, o) ==
  IF o.error # "" THEN Handled(500, [error |-> o.error], 3, o)
  ELSE IF Cardinality(o.rows) = 0 THEN Handled(500, [error |-> "TypeError"], 3, o)
  ELSE Handled(201, AttendanceJson(CHOOSE x \in o.rows : TRUE), 3, o)

\* POST /api/attendance: the response after the write. The catch block answers a
\* store error, and the TypeError of result.rows[0].id when no row came back.
UpsertResponse(r, o) ==
  IF o.error # "" THEN Handled(500, [error |-> o.error], 3, o)
  ELSE IF Cardinality(o.rows) = 0 THEN Handled(500, [error |-> "TypeError"], 3, o)
  ELSE Handled(IF r.existingRecord > 0 THEN 200 ELSE 201,
               AttendanceJson(CHOOSE x \in o.rows : TRUE), 3, o)

\* POST /api/attendance: the write of a request with locals r, and its response
UpsertFinish(db, r) == UpsertResponse(r, UpsertStatement(db, r))

\* app.post('/api/attendance'), its three statements run with nothing in between
Upsert(db, employeeId, date, status) ==
  IF ~pool THEN Unavailable(db)
  ELSE UpsertFinish(db, [employeeId |-> employeeId, date |-> date, status |-> status,
                         employeeResult |-> UpsertLookup(db, employeeId),
                         existingRecord |-> UpsertExisting(db, employeeId, date)])

\* app.post('/api/attendance'): the pool check and the employee lookup
UpsertSelectEmployee(u, employeeId, date, status) ==
  /\ ups[u].pc = "idle"
  /\ \A j \in Upserts : j < u => ups[j].pc # "idle"
  /\ ups' = [ups EXCEPT ![u] =
               IF ~pool
                 THEN DoneUpsert(Unavailable(Db).code)
                 ELSE [@ EXCEPT !.pc = "check", !.employeeId = employeeId, !.date = date,
                                !.status = status,
                                !.employeeResult = UpsertLookup(Db, employeeId)]]
  /\ UNCHANGED <<pool, now, employees, departments, attendance, dels>>

\* app.post('/api/attendance'): the existence check
UpsertSelectExisting(u) ==
  /\ ups[u].pc = "check"
  /\ ups' = [ups EXCEPT ![u] =
               [@ EXCEPT !.pc = "write",
                         !.existingRecord = UpsertExisting(Db, ups[u].employeeId,
                                                            ups[u].date)]]
  /\ UNCHANGED <<pool, now, employees, departments, attendance, dels>>

\* app.post('/api/attendance'): the update or insert, and the response
UpsertWrite(u) ==
  /\ ups[u].pc = "write"
  /\ LET h == UpsertFinish(Db, ups[u])
     IN  /\ Commit(h)
         /\ ups' = [ups EXCEPT ![u] = DoneUpsert(h.code)]
  /\ UNCHANGED <<pool, now, dels>>

\* app.delete('/api/attendance/:employeeId/:date')
DeleteAttendanceByKey(db, employeeId, date) ==
  IF ~pool THEN Unavailable(db)
  ELSE LET o == DeleteAttendance(db, employeeId, date)
       IN  IF Cardinality(o.rows) = 0
             THEN Handled(404, [error |-> "Attendance record not found"], 1, o)
             ELSE Handled(200, [success |-> TRUE], 1, o)

DeleteAttendances(employeeId, date) ==
  /\ Commit(DeleteAttendanceByKey(Db, employeeId, date))
  /\ UNCHANGED <<pool, now, ups, dels>>

\* ------------------------------------------------------------------- system
Next ==
  \/ Tick
  \/ \E body \in EmployeeBodies : PostEmployees(body)
  \/ \E id \in EmployeeIds, body \in PatchBodies : PatchEmployee(id, body)
  \/ \E k \in Deletes, id \in EmployeeIds : DeleteEmployeeAttendance(k, id)
  \/ \E k \in Deletes : DeleteEmployeeRow(k)
  \/ \E body \in DepartmentBodies : PostDepartments(body)
  \/ \E id \in DepartmentIds : DeleteDepartments(id)
  \/ \E u \in Upserts, employeeId \in UpsertEmployeeIds :
        \E date \in UpsertDates(u), status \in UpsertStatuses(u) :
          UpsertSelectEmployee(u, employeeId, date, status)
  \/ \E u \in Upserts : UpsertSelectExisting(u)
  \/ \E u \in Upserts : UpsertWrite(u)
  \/ \E employeeId \in EmployeeIds, date \in Dates : DeleteAttendances(employeeId, date)

Spec == Init /\ [][Next]_vars

\* ==================================================================== claims
\* Whether store x (a Db or a Handled) holds the same tables as store y.
SameTables(x, y) ==
  /\ x.employees = y.employees
  /\ x.departments = y.departments
  /\ x.attendance = y.attendance

\* The attendance rows of att stored for employee e and date d (e may be NULL).
RowsFor(att, e, d) == {a \in att : a.employee_id = e /\ a.date = d}

\* C1: in every reachable state the attendance table holds at most one row for
\* each (employeeId, date) pair.
C1_OneRowPerPair ==
  \A a \in attendance, b \in attendance :
    (a.employee_id = b.employee_id /\ a.date = b.date) => a = b

\* C4: an upsert whose employee lookup found no employee, with no attendance row
\* for its pair, inserts a row with outlet NULL and responds 201.
C4_UnknownEmployeeCreated ==
  \A u \in Upserts :
    ( /\ ups[u].pc = "write"
      /\ ups[u].employeeResult = {}
      /\ ups[u].existingRecord = 0
      /\ ~\E e \in employees : e.id = PgParam(ups[u].employeeId)
      /\ RowsFor(attendance, PgParam(ups[u].employeeId), ups[u].date) = {} )
    => LET h == UpsertFinish(Db, ups[u])
       IN  /\ h.code = 201
           /\ \E a \in h.attendance \ attendance :
                a.id = AttendanceId(ups[u].employeeId, ups[u].date) /\ a.outlet = NULL

\* The optional fields a request body left out.
Omitted(body, optional) == {f \in optional : body[f] = Undefined}

\* C5: for Employee and Department, a successful Create followed by List returns
\* the created row exactly once, every optional field the request omitted being
\* the empty string.
C5_CreateThenListDefaults ==
  /\ \A body \in EmployeeBodies :
       LET h == CreateEmployee(Db, now, body)
           list == GetEmployees(h)
       IN  h.code = 201 =>
             /\ list.code = 200
             /\ Cardinality({r \in list.body : r.id = h.body.id}) = 1
             /\ \A r \in list.body : r.id = h.body.id =>
                  \A f \in Omitted(body, {"email", "phone", "address", "department",
                                          "outlet"}) : r[f] = ""
  /\ \A body \in DepartmentBodies :
       LET h == CreateDepartment(Db, now, body)
           list == GetDepartments(h)
       IN  h.code = 201 =>
             /\ list.code = 200
             /\ Cardinality({r \in list.body : r.id = h.body.id}) = 1
             /\ \A r \in list.body : r.id = h.body.id =>
                  \A f \in Omitted(body, {"description", "outlet"}) : r[f] = ""

\* C9: when two upserts for the same (employeeId, date) have both found no row
\* and are both about to insert, with still no row for the pair, then whichever
\* inserts first gets 201 and the other a duplicate-key 500, or the pair ends
\* with two rows.
C9_RaceOutcome ==
  \A u \in Upserts, v \in Upserts :
    ( /\ u # v
      /\ ups[u].pc = "write" /\ ups[v].pc = "write"
      /\ ups[u].existingRecord = 0 /\ ups[v].existingRecord = 0
      /\ PgParam(ups[u].employeeId) = PgParam(ups[v].employeeId)
      /\ ups[u].date = ups[v].date
      /\ RowsFor(attendance, PgParam(ups[u].employeeId), ups[u].date) = {} )
    => LET first == UpsertFinish(Db, ups[u])
           second == UpsertFinish(first, ups[v])
       IN  \/ /\ first.code = 201
              /\ second.code = 500
              /\ second.body.error = "duplicate key"
           \/ Cardinality(RowsFor(second.attendance, PgParam(ups[u].employeeId),
                                  ups[u].date)) = 2

\* C10: an upsert whose existence check found a row responds 200 with the
\* updated row (same id, new status), whatever ran between check and update.
C10_UpdateBranchResponds200 ==
  \A u \in Upserts :
    (ups[u].pc = "write" /\ ups[u].existingRecord > 0)
    => LET h == UpsertFinish(Db, ups[u])
       IN  /\ h.code = 200
           /\ h.body.id = AttendanceId(ups[u].employeeId, ups[u].date)
           /\ h.body.status = ups[u].status

\* C2: for an existing employee e and a date d with no attendance row for (e, d),
\* two upserts (e, d, s) run one after the other leave exactly one row for (e, d),
\* with status s and id e-d; the first responds 201, the second 200, and the
\* second changes no table.
C2_SequentialUpsertIdempotent ==
  pool =>
    \A e \in employees, d \in Dates, s \in Statuses :
      RowsFor(attendance, e.id, d) = {} =>
        LET first == Upsert(Db, e.id, d, s)
            second == Upsert(first, e.id, d, s)
        IN  /\ first.code = 201
            /\ second.code = 200
            /\ SameTables(second, first)
            /\ \E a \in second.attendance :
                 /\ RowsFor(second.attendance, e.id, d) = {a}
                 /\ a.status = s
                 /\ a.id = e.id \o "-" \o d

\* Two upserts have run, the first created the only attendance row and the
\* second found and updated it.
C2_Witness ==
  /\ ups[1].pc = "done" /\ ups[1].code = 201
  /\ ups[2].pc = "done" /\ ups[2].code = 200
  /\ \E a \in attendance : attendance = {a} /\ a.status = "present"

\* C3: once DELETE /api/employees/:id has responded 200, no attendance row
\* carries that employee id, in every later state in which the id is still
\* deleted, whatever upserts for that employee were or are in flight.
C3_DeletedEmployeeHasNoAttendance ==
  \A k \in Deletes :
    ( /\ dels[k].pc = "done"
      /\ dels[k].code = 200
      /\ ~\E e \in employees : e.id = dels[k].id )
    => \A a \in attendance : a.employee_id # dels[k].id

\* The delete has responded 200 while an upsert for the same employee, which
\* found the employee and one of its attendance rows, has yet to write.
C3_Witness ==
  \E k \in Deletes, u \in Upserts :
    /\ dels[k].pc = "done" /\ dels[k].code = 200
    /\ ~\E e \in employees : e.id = dels[k].id
    /\ ups[u].pc = "write"
    /\ ups[u].employeeId = dels[k].id
    /\ ups[u].employeeResult # {}
    /\ ups[u].existingRecord > 0

\* C6: with a pool, PATCH /api/employees/:id with none of the six fields responds
\* 400 for every id, issues no statement and changes no table.
C6_EmptyPatchRejected ==
  pool =>
    \A id \in EmployeeIds :
      LET h == UpdateEmployeeById(Db, id, NoEmployeeFields)
      IN  /\ h.code = 400
          /\ h.stmts = 0
          /\ SameTables(h, Db)

\* A store with an employee that has attendance and an id that has no employee:
\* the empty PATCH is rejected for both.
C6_Witness ==
  /\ pool
  /\ attendance # {}
  /\ \E id \in EmployeeIds, other \in EmployeeIds :
       /\ \E e \in employees : e.id = id
       /\ ~\E e \in employees : e.id = other
       /\ UpdateEmployeeById(Db, id, NoEmployeeFields).code = 400
       /\ UpdateEmployeeById(Db, other, NoEmployeeFields).code = 400

\* The outlet of the employee with this id, NULL when there is none.
EmployeeOutlet(emps, id) ==
  IF \E e \in emps : e.id = id THEN (CHOOSE e \in emps : e.id = id).outlet ELSE NULL

\* C7, as claimed: the outlet of an inserted attendance row is the employee's
\* outlet at the moment of the insert.
C7_OutletAtInsertMoment ==
  \A u \in Upserts :
    (ups[u].pc = "write" /\ ups[u].existingRecord = 0)
    => LET h == UpsertFinish(Db, ups[u])
       IN  h.code = 201 =>
             h.body.outlet = EmployeeOutlet(employees, PgParam(ups[u].employeeId))

\* C7, amended: the outlet of an inserted attendance row is the employee's outlet
\* as the inserting upsert's employee lookup read it (NULL when it found none),
\* and no step changes the outlet, id, employee or date of a row that stays.
C7_OutletSnapshot ==
  [][ /\ \A u \in Upserts :
           /\ (ups[u].pc = "idle" /\ ups'[u].pc = "check") =>
                ResolvedOutlet(ups'[u].employeeResult)
                  = EmployeeOutlet(employees, PgParam(ups'[u].employeeId))
           /\ (ups[u].pc = "write" /\ ups'[u].pc = "done" /\ ups[u].existingRecord = 0) =>
                \A b \in attendance' \ attendance :
                  b.outlet = ResolvedOutlet(ups[u].employeeResult)
      /\ \A a \in attendance, b \in attendance' :
           (a.id = b.id \/ (SqlEq(a.employee_id, b.employee_id) /\ SqlEq(a.date, b.date)))
           => /\ b.id = a.id
              /\ b.outlet = a.outlet
              /\ b.employee_id = a.employee_id
              /\ b.date = a.date
    ]_vars

\* A row whose outlet is no longer its employee's, after a later upsert updated it.
C7_Witness ==
  /\ \E a \in attendance, e \in employees :
       a.employee_id = e.id /\ a.outlet # e.outlet /\ a.status = "absent"
  /\ ups[2].pc = "done" /\ ups[2].code = 200

\* Whether a PATCH body has at least one of the six fields.
HasField(body) ==
  \E f \in {"name", "email", "phone", "address", "department", "outlet"} :
    body[f] # Undefined

\* C8: with a pool, a mutation addressed to a row that does not exist when its
\* statement runs responds 404 and changes no table: PATCH of an employee with
\* at least one field, both statements of DELETE of an employee, DELETE of a
\* department, DELETE of an attendance row.
C8_MissingRowNotFound ==
  pool =>
    /\ \A id \in EmployeeIds :
         (~\E e \in employees : e.id = id) =>
           /\ \A body \in PatchBodies :
                HasField(body) =>
                  LET h == UpdateEmployeeById(Db, id, body)
                  IN  h.code = 404 /\ SameTables(h, Db)
           /\ SameTables(DeleteAttendanceOf(Db, id), Db)
           /\ LET h == DeleteEmployeeResponse(DeleteEmployee(Db, id))
              IN  h.code = 404 /\ SameTables(h, Db)
    /\ \A id \in DepartmentIds :
         (~\E d \in departments : d.id = id) =>
           LET h == DeleteDepartmentById(Db, id)
           IN  h.code = 404 /\ SameTables(h, Db)
    /\ \A id \in EmployeeIds, d \in Dates :
         RowsFor(attendance, id, d) = {} =>
           LET h == DeleteAttendanceByKey(Db, id, d)
           IN  h.code = 404 /\ SameTables(h, Db)

\* All three tables hold rows, and a DELETE of an employee that did not exist
\* has responded 404.
C8_Witness ==
  /\ pool
  /\ employees # {} /\ departments # {} /\ attendance # {}
  /\ \E k \in Deletes : dels[k].pc = "done" /\ dels[k].code = 404

====
